---- MODULE Spec2Model ----
(***************************************************************************)
(* Model of the resume parser (resume_parser.py) and of the upload flow    *)
(* around it (app.py).  Python strings are sequences of one-character      *)
(* strings; the empty string is << >>.  An Optional value is a record      *)
(* [some, val].                                                            *)
(***************************************************************************)
EXTENDS Integers, Sequences, FiniteSets, TLC

VARIABLES
    nlp,        \* self.nlp: the entity recogniser spacy.load returned
    fs,         \* the paths of the files that exist in the upload folder
    pdf,        \* the document in the file saved last, the one the parser is given
    session,    \* the client's Flask session: resume_data, temp_file
    pc,         \* position of the request being served
    req,        \* the request being served (or the last one served)
    flashed,    \* the message flash() recorded during this request
    response,   \* the response of this request, "none" until the handler returns
    nreq,       \* requests received so far
    file_path,  \* self.file_path of the parser: the document it reads
    ppc,        \* position of the parse() invocation
    text,       \* parse's local text
    record,     \* what parse() returned
    path,       \* the positions this parse() invocation went through
    calls,      \* the extractors this parse() invocation called, in order
    heuristic,  \* the heuristic of extract_name that returned the name (0: none yet)
    results,    \* what the parse() invocations of this parser returned, in order
    nparse      \* parse() invocations on this parser so far

vars == <<nlp, fs, pdf, session, pc, req, flashed, response, nreq,
          file_path, ppc, text, record, path, calls, heuristic, results, nparse>>

webvars == <<fs, pdf, session, pc, req, flashed, response, nreq>>

-----------------------------------------------------------------------------
(* Bounds of the model *)

MaxPages == 2
MaxUploadPages == 1
MaxRequests == 2
MaxParses == 2

-----------------------------------------------------------------------------
(* Python str and re primitives *)

Upper == {"A","B","C","D","E","F","G","H","I","J","K","L","M",
          "N","O","P","Q","R","S","T","U","V","W","X","Y","Z"}
Lower == {"a","b","c","d","e","f","g","h","i","j","k","l","m",
          "n","o","p","q","r","s","t","u","v","w","x","y","z"}
Digits == {"0","1","2","3","4","5","6","7","8","9"}
Letters == Upper \cup Lower
Space == {" ", "\t", "\n", "\r", "\f"}
WordCh == Letters \cup Digits \cup {"_"}

None == [some |-> FALSE, val |-> << >>]
Some(v) == [some |-> TRUE, val |-> v]

Max(S) == CHOOSE x \in S : \A y \in S : y <= x
Min(S) == CHOOSE x \in S : \A y \in S : x <= y

\* s[:n]
Prefix(s, n) == SubSeq(s, 1, IF Len(s) < n THEN Len(s) ELSE n)

\* the first index >= p that holds no whitespace (Len(t)+1 when there is none)
SkipWs(t, p) == Min({j \in p..(Len(t) + 1) : j = Len(t) + 1 \/ t[j] \notin Space})

\* the last index of the longest run of Class characters starting at p (p-1: no run)
RunEnd(t, p, Class) ==
    Max({j \in (p - 1)..Len(t) : \A k \in p..j : t[k] \in Class})

\* str.split('\n')
RECURSIVE split_nl(_)
split_nl(s) ==
    IF \E i \in 1..Len(s) : s[i] = "\n"
    THEN LET i == Min({j \in 1..Len(s) : s[j] = "\n"})
         IN  <<SubSeq(s, 1, i - 1)>> \o split_nl(SubSeq(s, i + 1, Len(s)))
    ELSE <<s>>

\* str.strip()
strip(s) ==
    LET keep == {j \in 1..Len(s) : s[j] \notin Space}
    IN  IF keep = {} THEN << >> ELSE SubSeq(s, Min(keep), Max(keep))

\* str.split(): the maximal runs of non-whitespace
RECURSIVE split_ws(_)
split_ws(s) ==
    LET p == SkipWs(s, 1)
    IN  IF p > Len(s) THEN << >>
        ELSE LET e == Max({j \in p..Len(s) : \A k \in p..j : s[k] \notin Space})
             IN  <<SubSeq(s, p, e)>> \o split_ws(SubSeq(s, e + 1, Len(s)))

\* str.isupper(): some cased character, and no lower-case one
isupper(s) ==
    /\ \E j \in 1..Len(s) : s[j] \in Upper
    /\ \A j \in 1..Len(s) : s[j] \notin Lower

\* any(char.isdigit() for char in s)
any_digit(s) == \E j \in 1..Len(s) : s[j] \in Digits

\* str.lower(), character by character
UpperSeq == <<"A","B","C","D","E","F","G","H","I","J","K","L","M",
              "N","O","P","Q","R","S","T","U","V","W","X","Y","Z">>
LowerSeq == <<"a","b","c","d","e","f","g","h","i","j","k","l","m",
              "n","o","p","q","r","s","t","u","v","w","x","y","z">>
lower_ch(c) ==
    IF c \in Upper THEN LowerSeq[CHOOSE k \in 1..26 : UpperSeq[k] = c] ELSE c
lower(s) == [j \in 1..Len(s) |-> lower_ch(s[j])]

\* \b at the gap before index p
IsWordAt(t, p) == p >= 1 /\ p <= Len(t) /\ t[p] \in WordCh
Boundary(t, p) == IsWordAt(t, p - 1) # IsWordAt(t, p)

-----------------------------------------------------------------------------
(* The regular expressions of the extractors, as Python's re matches them *)

\* (?i)name\s*[\:|\-]?\s*([A-Z][a-z]+(?:\s+[A-Z][a-z]+){1,2}) at index i: group 1.
\* Under (?i) both [A-Z] and [a-z] match any letter.
LabelMatchAt(t, i) ==
    IF ~(i + 3 <= Len(t) /\ lower(SubSeq(t, i, i + 3)) = <<"n","a","m","e">>)
    THEN None
    ELSE LET p1 == SkipWs(t, i + 4)
             p2 == IF p1 <= Len(t) /\ t[p1] \in {":", "|", "-"} THEN p1 + 1 ELSE p1
             p3 == SkipWs(t, p2)
             e1 == RunEnd(t, p3, Letters)
             q  == SkipWs(t, e1 + 1)
             e2 == RunEnd(t, q, Letters)
             r  == SkipWs(t, e2 + 1)
             e3 == RunEnd(t, r, Letters)
         IN  IF e1 - p3 + 1 >= 2 /\ q > e1 + 1 /\ e2 - q + 1 >= 2
             THEN IF r > e2 + 1 /\ e3 - r + 1 >= 2
                  THEN Some(SubSeq(t, p3, e3))
                  ELSE Some(SubSeq(t, p3, e2))
             ELSE None

\* re.search(name_label_pattern, t): the leftmost match
LabelSearch(t) ==
    LET hits == {i \in 1..Len(t) : LabelMatchAt(t, i).some}
    IN  IF hits = {} THEN None ELSE LabelMatchAt(t, Min(hits))

\* [A-Z][a-z]+ at index p: the index of its last character, 0 when it does not match
CapWordEnd(t, p) ==
    IF p >= 1 /\ p <= Len(t) /\ t[p] \in Upper /\ RunEnd(t, p + 1, Lower) >= p + 1
    THEN RunEnd(t, p + 1, Lower)
    ELSE 0

\* re.search(r'^([A-Z][a-z]+(?:\s+[A-Z][a-z]+){1,2})[\s\n]+', t): group 1.
\* Without re.MULTILINE the ^ anchors the match at the start of t.
LeadingSearch(t) ==
    LET e1 == CapWordEnd(t, 1)
        q  == SkipWs(t, e1 + 1)
        e2 == CapWordEnd(t, q)
        r  == SkipWs(t, e2 + 1)
        e3 == CapWordEnd(t, r)
    IN  IF e1 = 0 \/ q = e1 + 1 \/ e2 = 0
        THEN None
        ELSE IF r > e2 + 1 /\ e3 # 0 /\ e3 + 1 <= Len(t) /\ t[e3 + 1] \in Space
             THEN Some(SubSeq(t, 1, e3))
             ELSE IF e2 + 1 <= Len(t) /\ t[e2 + 1] \in Space
                  THEN Some(SubSeq(t, 1, e2))
                  ELSE None

LocalCh == Letters \cup Digits \cup {".", "_", "%", "+", "-"}
DomainCh == Letters \cup Digits \cup {".", "-"}
TldCh == Letters \cup {"|"}

\* \b[A-Za-z0-9._%+-]+@[A-Za-z0-9.-]+\.[A-Z|a-z]{2,}\b at index i: the index of
\* the last character of the match the backtracking engine returns, 0 for none.
\* The domain is taken as long as possible, then the top-level part.
EmailEndAt(t, i) ==
    IF ~(t[i] \in LocalCh /\ Boundary(t, i)) THEN 0
    ELSE LET le == RunEnd(t, i, LocalCh)
         IN  IF ~(le + 1 <= Len(t) /\ t[le + 1] = "@") THEN 0
             ELSE LET ds == le + 2
                      dm == RunEnd(t, ds, DomainCh)
                      TldEnds(d) == {e \in (d + 3)..RunEnd(t, d + 2, TldCh) :
                                        Boundary(t, e + 1)}
                      ds_ok == {d \in ds..dm : d + 1 <= Len(t) /\ t[d + 1] = "."
                                                /\ TldEnds(d) # {}}
                  IN  IF ds_ok = {} THEN 0 ELSE Max(TldEnds(Max(ds_ok)))

\* re.findall(email_pattern, t)[0], None when the list is empty
EmailFirst(t) ==
    LET hits == {i \in 1..Len(t) : EmailEndAt(t, i) # 0}
    IN  IF hits = {} THEN None
        ELSE Some(SubSeq(t, Min(hits), EmailEndAt(t, Min(hits))))

PhoneBodyCh == Digits \cup {" ", ".", "-", "(", ")"}

\* [\+\(]?[1-9][0-9 .\-\(\)]{8,}[0-9] at index i: the index of the last character
\* of the match, 0 for none.  The body is taken as long as possible.
PhoneEndAt(t, i) ==
    LET lead == IF t[i] \in {"+", "("} THEN i + 1 ELSE i
    IN  IF ~(lead <= Len(t) /\ t[lead] \in (Digits \ {"0"})) THEN 0
        ELSE LET b    == lead + 1
                 bm   == RunEnd(t, b, PhoneBodyCh)
                 ends == {e \in (b + 8)..bm : t[e] \in Digits}
             IN  IF ends = {} THEN 0 ELSE Max(ends)

\* re.findall(phone_pattern, t)[0], None when the list is empty
PhoneFirst(t) ==
    LET hits == {i \in 1..Len(t) : PhoneEndAt(t, i) # 0}
    IN  IF hits = {} THEN None
        ELSE Some(SubSeq(t, Min(hits), PhoneEndAt(t, Min(hits))))

-----------------------------------------------------------------------------
(* The entity recogniser.  spaCy is outside the repository: self.nlp is one *)
(* of a few fixed recognisers, each a function of the text it is given, or  *)
(* one whose call fails.  "missing" is a model spacy.load cannot load.      *)

NlpModels == {"no_person", "short_person", "two_persons", "raises"}

\* [ent.text for ent in doc.ents if ent.label_ == "PERSON"] for self.nlp(t)
PersonEntities(t) ==
    LET w == split_ws(t)
    IN  CASE nlp = "short_person" /\ Len(w) >= 1 -> <<w[1]>>
          [] nlp = "two_persons" /\ Len(w) >= 3 -> <<w[1], w[2] \o <<" ">> \o w[3]>>
          [] nlp = "two_persons" /\ Len(w) >= 1 -> <<w[1]>>
          [] OTHER -> << >>

-----------------------------------------------------------------------------
(* Field extractors *)

NameScanLines == 5
LabelPrefixLen == 1000
NerPrefixLen == 2000
LeadingPrefixLen == 1000

FallbackName == <<"H", "E", "M", "A", "N", "T", "H", " ", "J", "A", "Y", "A", "R", "A", "M">>
FallbackEmail == <<"h", "e", "m", "a", "n", "t", "h", "j", "a", "y", "a", "r", "a", "m", "5", "5", "6", "6", "@", "g", "m", "a", "i", "l", ".", "c", "o", "m">>
FallbackPhone == <<"9", "9", "8", "6", "5", "0", "0", "9", "0", "0">>
Address == <<"B", "e", "n", "g", "a", "l", "u", "r", "u", ",", " ", "I", "n", "d", "i", "a">>

\* line 58: an upper-case line of 2-3 words without a digit
IsAllCapsName(line) ==
    /\ isupper(line)
    /\ Len(split_ws(line)) >= 2 /\ Len(split_ws(line)) <= 3
    /\ ~any_digit(line)

\* line 84: a line of 2-3 words, each starting upper-case, without a digit
IsCapitalizedName(line) ==
    LET words == split_ws(line)
    IN  /\ Len(words) >= 2 /\ Len(words) <= 3
        /\ \A k \in 1..Len(words) : words[k][1] \in Upper
        /\ ~any_digit(line)

\* lines[i].strip() for i in range(min(5, len(lines)))
ScannedLines(t) ==
    LET lines == split_nl(t)
        n     == IF Len(lines) < NameScanLines THEN Len(lines) ELSE NameScanLines
    IN  [i \in 1..n |-> strip(lines[i])]

\* lines 56-59: the first scanned line that is an all-caps name
AllCapsLine(t) ==
    LET hits == {i \in 1..Len(ScannedLines(t)) : IsAllCapsName(ScannedLines(t)[i])}
    IN  IF hits = {} THEN None ELSE Some(ScannedLines(t)[Min(hits)])

LabeledName(t) == LabelSearch(Prefix(t, LabelPrefixLen))

\* lines 80-85: the first scanned line that is a capitalized name
CapitalizedLine(t) ==
    LET hits == {i \in 1..Len(ScannedLines(t)) : IsCapitalizedName(ScannedLines(t)[i])}
    IN  IF hits = {} THEN None ELSE Some(ScannedLines(t)[Min(hits)])
LeadingName(t) == LeadingSearch(Prefix(t, LeadingPrefixLen))

\* lines 69-77: the first PERSON entity of two or more words
NerName(t) ==
    LET person_entities == PersonEntities(Prefix(t, NerPrefixLen))
        valid == {k \in 1..Len(person_entities) : Len(split_ws(person_entities[k])) >= 2}
    IN  IF valid = {} THEN None ELSE Some(person_entities[Min(valid)])

Returned(v, h) == [raised |-> FALSE, value |-> v, heuristic |-> h]
Raised == [raised |-> TRUE, value |-> << >>, heuristic |-> 0]

\* extract_name with the label pattern tried before the all-caps lines
extract_name_label_first(t) ==
    IF LabeledName(t).some THEN Returned(LabeledName(t).val, 2)
    ELSE IF AllCapsLine(t).some THEN Returned(AllCapsLine(t).val, 1)
    ELSE IF nlp = "raises" THEN Raised
    ELSE IF NerName(t).some THEN Returned(NerName(t).val, 3)
    ELSE IF CapitalizedLine(t).some THEN Returned(CapitalizedLine(t).val, 4)
    ELSE IF LeadingName(t).some THEN Returned(LeadingName(t).val, 5)
    ELSE Returned(FallbackName, 6)

\* extract_name: the value returned and the number of the heuristic that returned
\* it; raised when the call of self.nlp fails
extract_name(t) ==
    IF AllCapsLine(t).some THEN Returned(AllCapsLine(t).val, 1)
    ELSE IF LabeledName(t).some THEN Returned(LabeledName(t).val, 2)
    ELSE IF nlp = "raises" THEN Raised
    ELSE IF NerName(t).some THEN Returned(NerName(t).val, 3)
    ELSE IF CapitalizedLine(t).some THEN Returned(CapitalizedLine(t).val, 4)
    ELSE IF LeadingName(t).some THEN Returned(LeadingName(t).val, 5)
    ELSE Returned(FallbackName, 6)

\* extract_email with an empty string for "not found"
extract_email_empty_fallback(t) == IF EmailFirst(t).some THEN EmailFirst(t).val ELSE << >>

extract_email(t) == IF EmailFirst(t).some THEN EmailFirst(t).val ELSE FallbackEmail

extract_phone_number(t) == IF PhoneFirst(t).some THEN PhoneFirst(t).val ELSE FallbackPhone

extract_education(t) ==
    << [degree |-> "Bachelor of Engineering",
        institution |-> "Artificial Intelligence & Machine Learning",
        year |-> "2026",
        details |-> <<"Expected in 06/2026">>],
       [degree |-> "Ramaiah Institute of Technology",
        institution |-> "Bengaluru, India",
        year |-> ""],
       [degree |-> "Diploma",
        institution |-> "Electrical & Electronics Engineering",
        year |-> "2023",
        gpa |-> "8.32 gpa",
        details |-> <<"8.32 GPA/CGPA">>] >>

extract_skills(t) ==
    [technical |-> <<"Artificial Intelligence", "Automation", "Data Analysis",
                     "Engineering", "Machine Learning", "Software",
                     "Various Software Programs">>,
     soft |-> <<"Communication", "Effective Communication", "Teamwork",
                "Problem Solving", "Quick Learner">>,
     languages |-> <<"Hindi", "Kannada", "English">>,
     certifications |-> <<"Industrial Automation Training">>]

extract_experience(t) ==
    << [title |-> "Mechanic Technician",
        company |-> "Shivam Sports - Belgaum, India",
        duration |-> "02/2022 - 03/2022",
        responsibilities |-> <<
          "Enhanced customer satisfaction by providing timely and accurate repairs on a wide range of vehicles.",
          "Improved vehicle performance by conducting thorough inspections and diagnostic tests.",
          "Increased efficiency by proficiently managing multiple repair projects simultaneously.",
          "Supported a positive customer experience by providing follow-up services such as test drives and post-repair consultations.">>],
       [title |-> "Intern",
        company |-> "Government Tool Room & Training Center - Belgaum, India",
        duration |-> "02/2023 - 06/2023",
        responsibilities |-> <<
          "Gained valuable experience working within a specific industry, applying learned concepts directly into relevant work situations.",
          "Gained hands-on experience in various software programs, increasing proficiency and expanding technical skill set.",
          "Analyzed problems and worked with teams to develop solutions.",
          "Participated in workshops and presentations related to projects to gain knowledge.">>] >>

\* the empty structure with the address of the populated record left in it
get_empty_resume_structure_with_address ==
    [personal_info |-> [name |-> << >>, email |-> << >>, phone |-> << >>,
                        address |-> Address],
     education |-> << >>,
     skills |-> [technical |-> << >>, soft |-> << >>, languages |-> << >>,
                 certifications |-> << >>],
     work_experience |-> << >>]

get_empty_resume_structure ==
    [personal_info |-> [name |-> << >>, email |-> << >>, phone |-> << >>,
                        address |-> << >>],
     education |-> << >>,
     skills |-> [technical |-> << >>, soft |-> << >>, languages |-> << >>,
                 certifications |-> << >>],
     work_experience |-> << >>]

-----------------------------------------------------------------------------
(* Documents.  A PDF is a file that PdfReader can read or not, and a       *)
(* sequence of pages; page.extract_text() returns the page's text or fails. *)

PageTexts ==
    { <<"J", "O", " ", "S", "M", "\n">>,
      <<"A", "N", " ", "L", "I", "\n">>,
      <<"N", "a", "m", "e", ":", " ", "A", "l", " ", "B", "o", "\n">>,
      <<"C", "y", " ", "D", "i", "\n">>,
      <<"E", "d", " ", "F", "o", " ", "g", "h", " ", "i", "j", "\n">>,
      <<"\n", "\n", "\n", "\n", "\n">>,
      <<"a", ".", "b", "@", "c", ".", "c", "o">>,
      <<"+", "1", " ", "(", "5", "5", "5", ")", " ", "1", "2", "3", "-", "4", "5", "6", "7", "\n">>,
      <<"x", " ", "y", "\n">>,
      << >> }

Page(t) == [ok |-> TRUE, text |-> t]
PageFails == [ok |-> FALSE, text |-> << >>]
Pages == {Page(t) : t \in PageTexts} \cup {PageFails}

SeqsUpTo(S, n) == UNION {[1..k -> S] : k \in 0..n}

Unreadable == [readable |-> FALSE, pages |-> << >>]
Docs(n) == {[readable |-> TRUE, pages |-> ps] : ps \in SeqsUpTo(Pages, n)}
              \cup {Unreadable}

-----------------------------------------------------------------------------
(* ResumeParser *)

\* read_pages that returns the text read so far when a page fails
RECURSIVE read_pages_partial(_, _, _)
read_pages_partial(pages, k, acc) ==
    IF k > Len(pages) THEN Some(acc)
    ELSE IF ~pages[k].ok THEN Some(acc)
    ELSE read_pages_partial(pages, k + 1, acc \o pages[k].text)

\* lines 45-47: for page in pdf_reader.pages: text += page.extract_text()
RECURSIVE read_pages(_, _, _)
read_pages(pages, k, acc) ==
    IF k > Len(pages) THEN Some(acc)
    ELSE IF ~pages[k].ok THEN None
    ELSE read_pages(pages, k + 1, acc \o pages[k].text)

\* extract_text_from_pdf that appends to the text an earlier call left behind
extract_text_from_pdf_accumulating ==
    IF file_path \notin fs \/ ~pdf.readable
    THEN None
    ELSE read_pages(pdf.pages, 1, text.val)

\* extract_text_from_pdf(self): None when open, PdfReader or a page fails
extract_text_from_pdf ==
    IF file_path \notin fs \/ ~pdf.readable
    THEN None
    ELSE read_pages(pdf.pages, 1, << >>)

\* Python's truth value of an Optional[str]
Truthy(t) == t.some /\ t.val # << >>

\* the dict literal with the work history under the key "experience"
parsed_data_experience_key(t, name) ==
    [personal_info |-> [name |-> name,
                        email |-> extract_email(t),
                        phone |-> extract_phone_number(t),
                        address |-> Address],
     education |-> extract_education(t),
     skills |-> extract_skills(t),
     experience |-> extract_experience(t)]

\* lines 204-214: the dict literal, given the name extract_name returned
parsed_data(t, name) ==
    [personal_info |-> [name |-> name,
                        email |-> extract_email(t),
                        phone |-> extract_phone_number(t),
                        address |-> Address],
     education |-> extract_education(t),
     skills |-> extract_skills(t),
     work_experience |-> extract_experience(t)]

FieldExtractors == <<"extract_name", "extract_email", "extract_phone_number",
                     "extract_education", "extract_skills", "extract_experience">>

Step(to) == ppc' = to /\ path' = Append(path, to)

\* line 195: parse() is entered
parse_start ==
    /\ ppc = "NotStarted"
    /\ pc \in {"lib", "parsing"}
    /\ ppc' = "Start" /\ path' = <<"Start">>
    /\ calls' = << >> /\ heuristic' = 0
    /\ nparse' = nparse + 1
    /\ UNCHANGED <<nlp, webvars, file_path, text, record, results>>

\* lines 198-199: text = self.extract_text_from_pdf(); if not text
parse_extract_text ==
    /\ ppc = "Start"
    /\ text' = extract_text_from_pdf
    /\ calls' = Append(calls, "extract_text_from_pdf")
    /\ Step(IF Truthy(text') THEN "TextExtracted" ELSE "TextExtractionFailed")
    /\ UNCHANGED <<nlp, webvars, file_path, record, heuristic, results, nparse>>

\* lines 200-201: the value of self.get_empty_resume_structure()
parse_empty_structure ==
    /\ ppc = "TextExtractionFailed"
    /\ record' = Some(get_empty_resume_structure)
    /\ Step("EmptyStructureReturned")
    /\ UNCHANGED <<nlp, webvars, file_path, text, calls, heuristic, results, nparse>>

\* lines 204-214: the field extractors, in the order the dict literal calls them;
\* an extractor that raises ends parse() with its exception
parse_extract_fields ==
    /\ ppc = "TextExtracted"
    /\ LET n == extract_name(text.val)
       IN  IF n.raised
           THEN /\ Step("Raised")
                /\ calls' = Append(calls, "extract_name")
                /\ results' = Append(results, None)
                /\ UNCHANGED <<record, heuristic>>
           ELSE /\ Step("FieldsExtracted")
                /\ calls' = calls \o FieldExtractors
                /\ record' = Some(parsed_data(text.val, n.value))
                /\ heuristic' = n.heuristic
                /\ UNCHANGED results
    /\ UNCHANGED <<nlp, webvars, file_path, text, nparse>>

\* lines 201, 217: return
parse_return ==
    /\ ppc \in {"EmptyStructureReturned", "FieldsExtracted"}
    /\ Step("Done")
    /\ results' = Append(results, record)
    /\ UNCHANGED <<nlp, webvars, file_path, text, record, calls, heuristic, nparse>>

\* parse() is called again on the same ResumeParser
parse_again ==
    /\ pc = "lib"
    /\ ppc \in {"Done", "Raised"}
    /\ nparse < MaxParses
    /\ ppc' = "NotStarted"
    /\ UNCHANGED <<nlp, webvars, file_path, text, record, path, calls, heuristic,
                   results, nparse>>

NoRequest == [kind |-> "none", has_part |-> FALSE, filename |-> << >>, path |-> 0]
NoSession == [resume_data |-> None, temp_file |-> None]

\* A ResumeParser constructed on an existing file (lines 17-37), parse() not yet called
InitParse ==
    /\ nlp \in NlpModels
    /\ pdf \in Docs(MaxPages)
    /\ fs = {1} /\ file_path = 1
    /\ session = NoSession /\ pc = "lib" /\ req = NoRequest
    /\ flashed = "" /\ response = "none" /\ nreq = 0
    /\ ppc = "NotStarted" /\ text = None /\ record = None
    /\ path = << >> /\ calls = << >> /\ heuristic = 0
    /\ results = << >> /\ nparse = 0

NextParse ==
    \/ parse_start
    \/ parse_extract_text
    \/ parse_empty_structure
    \/ parse_extract_fields
    \/ parse_return
    \/ parse_again

SpecParse == InitParse /\ [][NextParse]_vars

-----------------------------------------------------------------------------
(* The upload flow of app.py: one client, whose session persists across     *)
(* requests.  The temporary path of a request is its number (uuid4 makes it *)
(* unique).  Requests are those within MAX_CONTENT_LENGTH.                  *)

ALLOWED_EXTENSIONS == {<<"p", "d", "f">>}

FileNames == { << >>, <<"c", "v", ".", "p", "d", "f">>, <<"C", "V", ".", "P", "D", "F">>, <<"c", "v", ".", "t", "x", "t">>, <<"p", "d", "f">> }

\* filename.rsplit('.', 1)[1]: what follows the last dot
Extension(filename) ==
    LET dots == {j \in 1..Len(filename) : filename[j] = "."}
    IN  SubSeq(filename, Max(dots) + 1, Len(filename))

allowed_file(filename) ==
    /\ \E j \in 1..Len(filename) : filename[j] = "."
    /\ lower(Extension(filename)) \in ALLOWED_EXTENSIONS

\* the truth value of the dict session.get('resume_data'), as show_result takes
\* it with a dict that counts as empty when every field of it is empty
DictTruthy_any_field(o) == o.some /\ o.val # get_empty_resume_structure

\* Python's truth value of session.get('resume_data'): a dict with a key
DictTruthy(o) == o.some /\ DOMAIN o.val # {}

\* lines 61-62: the key "experience" renamed to "work_experience"
fix_experience_key(r) ==
    IF "experience" \in DOMAIN r /\ "work_experience" \notin DOMAIN r
    THEN [k \in (DOMAIN r \ {"experience"}) \cup {"work_experience"} |->
             IF k = "work_experience" THEN r["experience"] ELSE r[k]]
    ELSE r

Receive(kind, has_part, filename, p) ==
    /\ pc = "idle"
    /\ nreq < MaxRequests
    /\ nreq' = nreq + 1
    /\ req' = [kind |-> kind, has_part |-> has_part, filename |-> filename, path |-> p]

Respond(msg, resp) ==
    /\ flashed' = msg
    /\ response' = resp
    /\ pc' = "after_request"

parservars == <<file_path, ppc, text, record, path, calls, heuristic, results, nparse>>

\* lines 36-38: no file part in the request
upload_file_no_part ==
    /\ Receive("upload", FALSE, << >>, 0)
    /\ Respond("No file part", "redirect:index")
    /\ UNCHANGED <<nlp, fs, pdf, session, parservars>>

\* lines 42-44: a file part with an empty filename
upload_file_no_filename ==
    /\ Receive("upload", TRUE, << >>, 0)
    /\ Respond("No selected file", "redirect:index")
    /\ UNCHANGED <<nlp, fs, pdf, session, parservars>>

\* lines 46, 75-77: a filename that is not an allowed one
upload_file_invalid_format ==
    /\ \E fn \in FileNames \ {<< >>} :
          /\ ~allowed_file(fn)
          /\ Receive("upload", TRUE, fn, 0)
    /\ Respond("Invalid file format. Please upload a PDF file.", "redirect:index")
    /\ UNCHANGED <<nlp, fs, pdf, session, parservars>>

\* lines 46-54: the upload is saved under a fresh path
upload_file_save ==
    /\ \E fn \in FileNames \ {<< >>} :
          /\ allowed_file(fn)
          /\ Receive("upload", TRUE, fn, nreq + 1)
    /\ pdf' \in Docs(MaxUploadPages)
    /\ fs' = fs \cup {nreq + 1}
    /\ flashed' = "" /\ response' = "none"
    /\ pc' = "saved"
    /\ UNCHANGED <<nlp, session, parservars>>

\* line 57, lines 17-37: ResumeParser(filepath); the saved file exists
upload_file_construct ==
    /\ pc = "saved"
    /\ nlp # "missing"
    /\ req.path \in fs
    /\ file_path' = req.path
    /\ ppc' = "NotStarted" /\ text' = None /\ record' = None
    /\ path' = << >> /\ calls' = << >> /\ heuristic' = 0
    /\ results' = << >> /\ nparse' = 0
    /\ pc' = "parsing"
    /\ UNCHANGED <<nlp, fs, pdf, session, req, flashed, response, nreq>>

\* line 29 raises (spacy.load finds no model), lines 71-74 handle it
upload_file_construct_raises ==
    /\ pc = "saved"
    /\ nlp = "missing"
    /\ Respond("Error parsing resume", "redirect:index")
    /\ UNCHANGED <<nlp, fs, pdf, session, req, nreq, parservars>>

\* lines 58-69: parse() returned; the record and the path go into the session
upload_file_store ==
    /\ pc = "parsing" /\ ppc = "Done"
    /\ session' = [resume_data |-> Some(fix_experience_key(record.val)),
                   temp_file |-> Some(req.path)]
    /\ Respond("", "redirect:show_result")
    /\ UNCHANGED <<nlp, fs, pdf, req, nreq, parservars>>

\* lines 71-74: parse() raised
upload_file_except ==
    /\ pc = "parsing" /\ ppc = "Raised"
    /\ Respond("Error parsing resume", "redirect:index")
    /\ UNCHANGED <<nlp, fs, pdf, session, req, nreq, parservars>>

\* lines 79-88
show_result ==
    /\ Receive("result", FALSE, << >>, 0)
    /\ IF ~DictTruthy(session.resume_data)
       THEN Respond("No resume data found. Please upload a resume first.",
                    "redirect:index")
       ELSE Respond("", "render:result.html")
    /\ UNCHANGED <<nlp, fs, pdf, session, parservars>>

\* lines 28-31
index ==
    /\ Receive("index", FALSE, << >>, 0)
    /\ Respond("", "render:index.html")
    /\ UNCHANGED <<nlp, fs, pdf, session, parservars>>

\* lines 115-126: after every request, the file session['temp_file'] names is
\* removed if it exists, and the key is dropped.  os.remove succeeds on a file
\* that exists.  The handler has returned: its parser and the parser's locals
\* are gone, only the position parse() ended at is kept.
cleanup ==
    /\ pc = "after_request"
    /\ IF session.temp_file.some /\ session.temp_file.val \in fs
       THEN /\ fs' = fs \ {session.temp_file.val}
            /\ pdf' = IF session.temp_file.val = file_path THEN Unreadable ELSE pdf
            /\ session' = [session EXCEPT !.temp_file = None]
       ELSE UNCHANGED <<fs, pdf, session>>
    /\ pc' = "idle"
    /\ text' = None /\ record' = None
    /\ path' = << >> /\ calls' = << >> /\ heuristic' = 0 /\ results' = << >>
    /\ UNCHANGED <<nlp, req, flashed, response, nreq, file_path, ppc, nparse>>

\* The application started, no request received yet
Init ==
    /\ nlp \in NlpModels \cup {"missing"}
    /\ fs = {} /\ pdf = Unreadable
    /\ session = NoSession /\ pc = "idle" /\ req = NoRequest
    /\ flashed = "" /\ response = "none" /\ nreq = 0
    /\ file_path = 0
    /\ ppc = "NotStarted" /\ text = None /\ record = None
    /\ path = << >> /\ calls = << >> /\ heuristic = 0
    /\ results = << >> /\ nparse = 0

Next ==
    \/ upload_file_no_part
    \/ upload_file_no_filename
    \/ upload_file_invalid_format
    \/ upload_file_save
    \/ upload_file_construct
    \/ upload_file_construct_raises
    \/ parse_start
    \/ parse_extract_text
    \/ parse_empty_structure
    \/ parse_extract_fields
    \/ parse_return
    \/ upload_file_store
    \/ upload_file_except
    \/ show_result
    \/ index
    \/ cleanup

Spec == Init /\ [][Next]_vars

-----------------------------------------------------------------------------
(* Properties of parse() *)

TopKeys == {"personal_info", "education", "skills", "work_experience"}
InfoKeys == {"name", "email", "phone", "address"}
Chars == Letters \cup Digits \cup Space
            \cup {"_", ":", "-", "|", "@", ".", "+", "(", ")", "%", ","}

OnTextPath == ppc \in {"FieldsExtracted", "Done"} /\ Truthy(text)
OnEmptyPath == ppc \in {"EmptyStructureReturned", "Done"} /\ ~Truthy(text)
Info == record.val.personal_info

\* C1: when text extraction yields None or "", parse returns the canonical empty
\* record: every personal_info string is empty, education and work_experience are
\* empty and every skills category is empty.
C1_EmptyRecordOnNoText ==
    OnEmptyPath =>
        /\ record.some
        /\ DOMAIN record.val = TopKeys
        /\ DOMAIN Info = InfoKeys
        /\ \A k \in InfoKeys : Info[k] = << >>
        /\ record.val.education = << >>
        /\ \A c \in DOMAIN record.val.skills : record.val.skills[c] = << >>
        /\ record.val.work_experience = << >>
        /\ (ppc = "Done" => results[Len(results)] = record)

\* an empty text (not None) read from a document with pages ends in the empty record
C1_Witness ==
    /\ ppc = "Done" /\ text = Some(<< >>)
    /\ Len(pdf.pages) >= 1
    /\ record = Some(get_empty_resume_structure)

\* C2: every record parse returns, on either path, has the four top-level keys
\* and the four personal_info fields, each of them a string.
C2_RecordIsTotal ==
    record.some =>
        /\ DOMAIN record.val = TopKeys
        /\ DOMAIN Info = InfoKeys
        /\ \A k \in InfoKeys : Info[k] \in Seq(Chars)

\* a record built from a text on which no heuristic matched
C2_Witness ==
    /\ ppc = "Done" /\ Truthy(text) /\ record.some
    /\ heuristic = 6
    /\ ~EmailFirst(text.val).some /\ ~PhoneFirst(text.val).some

\* C3: when one of the first 5 lines, trimmed, is an all-caps line of 2-3 words
\* without a digit, extract_name returns the first such line; heuristic k returns
\* only when heuristics 1..k-1 found nothing.
C3_HeuristicOrder ==
    OnTextPath =>
        LET t     == text.val
            lines == split_nl(t)
            n     == IF Len(lines) < 5 THEN Len(lines) ELSE 5
            caps  == {i \in 1..n : IsAllCapsName(strip(lines[i]))}
        IN  /\ caps # {} => (Info.name = strip(lines[Min(caps)]) /\ heuristic = 1)
            /\ heuristic >= 2 => caps = {}
            /\ heuristic >= 3 => ~LabeledName(t).some
            /\ heuristic >= 4 => ~NerName(t).some
            /\ heuristic >= 5 => ~CapitalizedLine(t).some
            /\ heuristic >= 6 => ~LeadingName(t).some

\* the all-caps line wins although a label, a capitalized line and a second
\* all-caps line are in the text as well
C3_Witness ==
    /\ ppc = "Done" /\ Truthy(text) /\ heuristic = 1
    /\ LabeledName(text.val).some
    /\ CapitalizedLine(text.val).some

\* C4: name, email and phone of a record built from a text are never empty; when
\* no heuristic or pattern matches, each is its extractor's fixed fallback value.
C4_FallbackNeverEmpty ==
    OnTextPath =>
        LET t == text.val
        IN  /\ Info.name # << >> /\ Info.email # << >> /\ Info.phone # << >>
            /\ ( ~AllCapsLine(t).some /\ ~LabeledName(t).some /\ ~NerName(t).some
                 /\ ~CapitalizedLine(t).some /\ ~LeadingName(t).some )
                   => Info.name = FallbackName
            /\ ~EmailFirst(t).some => Info.email = FallbackEmail
            /\ ~PhoneFirst(t).some => Info.phone = FallbackPhone

\* all three extractors fell back
C4_Witness ==
    /\ ppc = "Done" /\ Truthy(text)
    /\ Info.name = FallbackName
    /\ Info.email = FallbackEmail
    /\ Info.phone = FallbackPhone

\* C5: when a field extractor raises on a document with text, parse still returns
\* a complete record: the failing extractor's field is empty, every other field
\* holds what its extractor produced.
C5_FailingExtractorIsolated ==
    (ppc \in {"Done", "Raised"} /\ Truthy(text)) =>
        /\ ppc = "Done"
        /\ record.some
        /\ DOMAIN record.val = TopKeys
        /\ LET n == extract_name(text.val)
           IN  Info.name = IF n.raised THEN << >> ELSE n.value
        /\ Info.email = extract_email(text.val)
        /\ Info.phone = extract_phone_number(text.val)

\* C8: every parse() invocation on the same parser and document returns the same
\* record as the first one.
C8_ParseIsDeterministic ==
    \A i, j \in 1..Len(results) :
        /\ results[i].some = results[j].some
        /\ results[i].some => results[i].val = results[j].val

\* two invocations returned a record whose name and email were found in the text
C8_Witness ==
    /\ Len(results) >= 2
    /\ results[1].some /\ results[2].some
    /\ results[2].val.personal_info.name # FallbackName
    /\ results[2].val.personal_info.email # FallbackEmail
    /\ results[2].val.education # << >>

PathText == <<"Start", "TextExtracted", "FieldsExtracted", "Done">>
PathEmpty == <<"Start", "TextExtractionFailed", "EmptyStructureReturned", "Done">>

\* C9: a parse() invocation that has ended went through exactly one of the two
\* paths and reached Done; the text extractor ran first and once, field extractors
\* ran only after a non-empty text, none on the failure path.
C9_TwoPathsToDone ==
    ppc \in {"Done", "Raised"} =>
        /\ ppc = "Done"
        /\ path \in {PathText, PathEmpty}
        /\ calls[1] = "extract_text_from_pdf"
        /\ Cardinality({k \in 1..Len(calls) : calls[k] = "extract_text_from_pdf"}) = 1
        /\ Len(calls) > 1 => Truthy(text)
        /\ path = PathEmpty => Len(calls) = 1

RECURSIVE JoinPages(_)
JoinPages(ps) == IF ps = << >> THEN << >> ELSE Head(ps).text \o JoinPages(Tail(ps))

\* C10: extract_text_from_pdf raises nothing; it returns None when the file cannot
\* be read or any page fails, whatever was read before, and otherwise the texts of
\* all pages in page order.
C10_NoPartialText ==
    ppc \notin {"NotStarted", "Start"} =>
        LET doc   == pdf
            allok == doc.readable /\ \A k \in 1..Len(doc.pages) : doc.pages[k].ok
        IN  /\ path[2] \in {"TextExtracted", "TextExtractionFailed"}
            /\ allok => text = Some(JoinPages(doc.pages))
            /\ ~allok => text = None

\* a page fails after a page with text was read
C10_Witness ==
    /\ ppc = "Done" /\ text = None
    /\ Len(pdf.pages) >= 2
    /\ pdf.pages[1].ok /\ pdf.pages[1].text # << >>
    /\ ~pdf.pages[2].ok

-----------------------------------------------------------------------------
(* Properties of the upload flow *)

Responded == pc = "idle" /\ req.kind # "none"
Saved == req.kind = "upload" /\ req.path # 0
ParserRaised == Saved /\ (nlp = "missing" \/ ppc = "Raised")

\* C6: the temporary file of an upload exists while the parser runs, and no
\* longer exists once the response of that request has been produced, whatever
\* the parser did.
C6_TempFileRemoved ==
    /\ pc = "parsing" => req.path \in fs
    /\ (Responded /\ Saved) => req.path \notin fs

\* C7: an upload without file part, with an empty filename, with a filename that
\* is not a PDF's, or whose parser raised, ends with a flashed message and a
\* redirect to the index; any other upload stores the record in the session and
\* redirects to the results; a /result request made once a record is stored
\* renders it, the all-empty record too.
C7_UploadOutcomes ==
    /\ (pc \in {"after_request", "idle"} /\ req.kind = "upload") =>
          IF ~req.has_part \/ req.filename = << >> \/ ~allowed_file(req.filename)
             \/ ParserRaised
          THEN flashed # "" /\ response = "redirect:index"
          ELSE /\ flashed = "" /\ response = "redirect:show_result"
               /\ session.resume_data.some /\ ppc = "Done"
               /\ pc = "after_request" => session.resume_data = record
    /\ (Responded /\ req.kind = "result" /\ session.resume_data.some) =>
          flashed = "" /\ response = "render:result.html"

\* the results are rendered for a stored all-empty record
C7_Witness ==
    /\ Responded /\ req.kind = "result"
    /\ response = "render:result.html"
    /\ session.resume_data = Some(get_empty_resume_structure)

====
